---- MODULE Spec2Model ----
(***************************************************************************)
(* Model of src/content/ContentApi.ts: the ContentApi facade (query        *)
(* construction, delegation to getCacheEntries, promise chaining) and the  *)
(* normalization functions toArticles/toArticle/toCategories/toCategory/   *)
(* toImage.                                                                *)
(*                                                                         *)
(* JavaScript values are encoded as records so that values of different    *)
(* JavaScript types can be compared:                                       *)
(*   undefined = [undef |-> TRUE]     null   = [null |-> TRUE]             *)
(*   'abc'     = [str |-> "abc"]      42     = [num |-> 42]                *)
(*   [a, b]    = [arr |-> <<a, b>>]                                        *)
(*   {k: v}    = a record/function whose domain is the set of own keys.    *)
(* A key that is not in the domain is an omitted property; a key mapped to *)
(* Undefined is an own property holding undefined.                         *)
(***************************************************************************)
EXTENDS Integers, Sequences, FiniteSets, TLC

VARIABLES
    op,        \* facade: name of the last public operation called ("none" at start)
    arg,       \* facade: its argument (filter object or limit)
    sent,      \* facade: getCacheEntries calls issued by the last operation
    upstream,  \* facade: what getCacheEntries settled to for the last operation
    result,    \* facade: what the promise returned by the last operation settled to
    fresh,     \* reference: how each call settles on a newly constructed facade
    fn,        \* normalization: function applied to raw ("none" before)
    raw,       \* normalization: the raw backend payload
    out        \* normalization: the value returned (or the exception thrown)

vars == <<op, arg, sent, upstream, result, fresh, fn, raw, out>>
facadeVars == <<op, arg, sent, upstream, result>>
historyVars == <<fresh>>
normVars == <<fn, raw, out>>

----------------------------------------------------------------------------
(* Bounds of the model *)

MaxDepth == 2     \* longest parent chain below a raw category
MaxItems == 3     \* most items in a raw collection returned by the collaborator
MaxLimit == 3     \* largest limit a caller passes

----------------------------------------------------------------------------
(* JavaScript values *)

Undefined == [undef |-> TRUE]
Null == [null |-> TRUE]
Str(s) == [str |-> s]
Num(n) == [num |-> n]
Arr(s) == [arr |-> s]
EmptyObject == [k \in {} |-> Undefined]

Nullish(v) == v = Undefined \/ v = Null

\* JavaScript truthiness (ToBoolean) of the values the model uses.
Truthy(v) == ~Nullish(v) /\ v # Str("") /\ v # Num(0)

\* Property read o.k / o[k] on a non-nullish value: undefined when k is not an own key.
Get(o, k) == IF k \in DOMAIN o THEN o[k] ELSE Undefined

\* Property assignment o[k] = v.
Put(o, k, v) == (k :> v) @@ o

\* An exception thrown by a function, and the TypeError of reading a property of
\* undefined or null.
Throw(e) == [throw |-> e]
IsThrow(v) == DOMAIN v = {"throw"}
TypeError == [error |-> "TypeError"]

----------------------------------------------------------------------------
(* Normalization layer *)

RECURSIVE toCategory(_)
toCategory(entity) ==
    IF ~Truthy(entity) THEN Null
    ELSE LET data == [id |-> Get(entity, "id")]
             fields == Get(entity, "fields")
         IN  IF Truthy(fields)
             THEN LET named == Put(Put(data, "name", Get(fields, "name")),
                                   "slug", Get(fields, "slug"))
                  IN  IF Truthy(Get(fields, "parent"))
                      THEN Put(named, "parent", toCategory(Get(fields, "parent")))
                      ELSE named
             ELSE data

toImage(entity) ==
    IF ~Truthy(entity) THEN Null
    ELSE LET data == [id |-> Get(entity, "id")]
             fields == Get(entity, "fields")
             file == IF Truthy(fields) THEN Get(fields, "file") ELSE Undefined
             details == IF Truthy(file) THEN Get(file, "details") ELSE Undefined
             image == IF Truthy(details) THEN Get(details, "image") ELSE Undefined
             d1 == IF Truthy(file) /\ Truthy(Get(file, "url"))
                   THEN Put(data, "url", Get(file, "url")) ELSE data
             d2 == IF Truthy(file) /\ Truthy(Get(file, "contentType"))
                   THEN Put(d1, "contentType", Get(file, "contentType")) ELSE d1
             d3 == IF Truthy(details)
                   THEN Put(d2, "size", Get(details, "size")) ELSE d2
         IN  IF Truthy(image)
             THEN Put(Put(d3, "width", Get(image, "width")),
                      "height", Get(image, "height"))
             ELSE d3

\* toArticle with countViews copied as it is (the "|| 1" default forgotten).
toArticle_NoDefault(entity) ==
    IF ~Truthy(entity) THEN Null
    ELSE LET fields == Get(entity, "fields")
         IN  IF Nullish(fields) THEN Throw(TypeError)
             ELSE LET data == [id |-> Get(entity, "id"),
                               createdAt |-> Get(entity, "createdAt"),
                               updatedAt |-> Get(entity, "updatedAt"),
                               title |-> Get(fields, "title"),
                               slug |-> Get(fields, "slug"),
                               summary |-> Get(fields, "summary"),
                               countViews |-> Get(fields, "countViews")]
                      d1 == IF Truthy(Get(fields, "text"))
                            THEN Put(data, "text", Get(fields, "text")) ELSE data
                      d2 == IF Truthy(Get(fields, "category"))
                            THEN Put(d1, "category", toCategory(Get(fields, "category")))
                            ELSE d1
                  IN  IF Truthy(Get(fields, "image"))
                      THEN Put(d2, "image", toImage(Get(fields, "image")))
                      ELSE d2

toArticle(entity) ==
    IF ~Truthy(entity) THEN Null
    ELSE LET fields == Get(entity, "fields")
         IN  IF Nullish(fields) THEN Throw(TypeError)
             ELSE LET data == [id |-> Get(entity, "id"),
                               createdAt |-> Get(entity, "createdAt"),
                               updatedAt |-> Get(entity, "updatedAt"),
                               title |-> Get(fields, "title"),
                               slug |-> Get(fields, "slug"),
                               summary |-> Get(fields, "summary"),
                               countViews |-> IF Truthy(Get(fields, "countViews"))
                                              THEN Get(fields, "countViews")
                                              ELSE Num(1)]
                      d1 == IF Truthy(Get(fields, "text"))
                            THEN Put(data, "text", Get(fields, "text")) ELSE data
                      d2 == IF Truthy(Get(fields, "category"))
                            THEN Put(d1, "category", toCategory(Get(fields, "category")))
                            ELSE d1
                  IN  IF Truthy(Get(fields, "image"))
                      THEN Put(d2, "image", toImage(Get(fields, "image")))
                      ELSE d2

\* The outcome of items.map(callback), given the callback's result for each item: the
\* first exception escapes, otherwise the array of the results.
Mapped(results) ==
    IF \E i \in 1..Len(results) : IsThrow(results[i])
    THEN results[CHOOSE i \in 1..Len(results) :
                     /\ IsThrow(results[i])
                     /\ \A j \in 1..(i - 1) : ~IsThrow(results[j])]
    ELSE Arr(results)

toArticles(collection) ==
    LET data == [total |-> Num(0), items |-> Arr(<<>>)]
    IN  IF ~Truthy(collection) THEN data
        ELSE IF ~Truthy(Get(collection, "items"))
             THEN [data EXCEPT !.total = IF Truthy(Get(collection, "total"))
                                         THEN Get(collection, "total")
                                         ELSE data.total]
             ELSE LET raws == Get(collection, "items").arr
                      items == Mapped([i \in 1..Len(raws) |-> toArticle(raws[i])])
                  IN  IF IsThrow(items) THEN items
                      ELSE [data EXCEPT !.items = items]

toCategories(collection) ==
    LET data == [total |-> Num(0), items |-> Arr(<<>>)]
    IN  IF ~Truthy(collection) THEN data
        ELSE IF ~Truthy(Get(collection, "items"))
             THEN [data EXCEPT !.total = IF Truthy(Get(collection, "total"))
                                         THEN Get(collection, "total")
                                         ELSE data.total]
             ELSE LET raws == Get(collection, "items").arr
                      items == Mapped([i \in 1..Len(raws) |-> toCategory(raws[i])])
                  IN  IF IsThrow(items) THEN items
                      ELSE [data EXCEPT !.items = items]

----------------------------------------------------------------------------
(* Promises *)

Resolved(v) == [state |-> "resolved", value |-> v]
Rejected(e) == [state |-> "rejected", reason |-> e]

\* promise.then(callback), given the callback's result on promise.value: a rejection
\* passes through untouched (the callback is not run), a callback that throws rejects
\* with what it threw, otherwise the callback's result is the new value.
Then(promise, returned) ==
    IF promise.state = "rejected" THEN promise
    ELSE IF IsThrow(returned) THEN Rejected(returned.throw) ELSE Resolved(returned)

----------------------------------------------------------------------------
(* The facade.  An operation is modelled by the getCacheEntries calls it     *)
(* issues and the promise it returns; resp is what the collaborator's        *)
(* promise settles to if the operation reaches it.                           *)

ARTICLE == "article"
CATEGORY == "category"

InvalidFilter == [error |-> "parameter filter is invalid"]

\* The comma-separated projection of articles(), as the sequence of its paths.
ListSelect ==
    Arr(<<Str("sys.id"), Str("sys.createdAt"), Str("sys.updatedAt"),
          Str("fields.title"), Str("fields.slug"), Str("fields.summary"),
          Str("fields.image"), Str("fields.category")>>)

NoFetch(promise) == [fetches |-> <<>>, promise |-> promise]

\* CacheContentfulApi.getCacheEntries: one call on the collaborator.
getCacheEntries(contentType, query, resp) ==
    [fetches |-> <<[contentType |-> contentType, query |-> query]>>,
     promise |-> resp]

\* call.then(callback) on the promise of an operation, given the callback's result.
ThenCall(call, returned) ==
    [fetches |-> call.fetches, promise |-> Then(call.promise, returned)]

\* getArticles fetching under the category partition.
getArticles_WrongPartition(query, resp) ==
    ThenCall(getCacheEntries(CATEGORY, Put(query, "content_type", Str(ARTICLE)), resp),
             toArticles(resp.value))

getArticles(query, resp) ==
    LET entries == getCacheEntries(ARTICLE, Put(query, "content_type", Str(ARTICLE)), resp)
    IN  ThenCall(entries, toArticles(entries.promise.value))

\* getCategories with a catch that turns a failed fetch into an empty collection.
getCategories_Catch(query, resp) ==
    LET entries == getCacheEntries(CATEGORY, Put(query, "content_type", Str(CATEGORY)),
                                   IF resp.state = "rejected" THEN Resolved(Undefined)
                                                              ELSE resp)
    IN  ThenCall(entries, toCategories(entries.promise.value))

getCategories(query, resp) ==
    LET entries == getCacheEntries(CATEGORY, Put(query, "content_type", Str(CATEGORY)),
                                   resp)
    IN  ThenCall(entries, toCategories(entries.promise.value))

getArticlesList(query, resp) ==
    LET found == getArticles(query, resp)
    IN  ThenCall(found, found.promise.value.items)

getCategoriesList(query, resp) ==
    LET found == getCategories(query, resp)
    IN  ThenCall(found, found.promise.value.items)

\* FirstOrNull treating an empty collection as an error.
FirstOrNull_ThrowsOnEmpty(collection) ==
    LET items == collection.items.arr
    IN  IF Len(items) = 0 THEN Throw([error |-> "not found"])
        ELSE IF Truthy(items[1]) THEN items[1] ELSE Null

\* collection.items.length && collection.items[0] || null
FirstOrNull(collection) ==
    LET items == collection.items.arr
    IN  IF Len(items) # 0 /\ Truthy(items[1]) THEN items[1] ELSE Null

\* The validation of article() and category() insisting on an id.
ItemFilterInvalid_IdRequired(filter) ==
    ~Truthy(filter) \/ ~Truthy(Get(filter, "id"))

\* !filter || !filter.id && !filter.slug
ItemFilterInvalid(filter) ==
    ~Truthy(filter) \/ (~Truthy(Get(filter, "id")) /\ ~Truthy(Get(filter, "slug")))

\* ItemQuery preferring the id to the slug.
ItemQuery_IdFirst(filter) ==
    LET query == [include |-> Num(1), limit |-> Num(1)]
    IN  IF Truthy(Get(filter, "id"))
        THEN Put(query, "sys.id", Get(filter, "id"))
        ELSE Put(query, "fields.slug", Get(filter, "slug"))

\* The query of article() and category().
ItemQuery(filter) ==
    LET query == [include |-> Num(1), limit |-> Num(1)]
    IN  IF Truthy(Get(filter, "slug"))
        THEN Put(query, "fields.slug", Get(filter, "slug"))
        ELSE Put(query, "sys.id", Get(filter, "id"))

article(filter, resp) ==
    IF ItemFilterInvalid(filter) THEN NoFetch(Rejected(InvalidFilter))
    ELSE LET found == getArticles(ItemQuery(filter), resp)
         IN  ThenCall(found, FirstOrNull(found.promise.value))

\* ArticlesOrder with the two countViews directions exchanged.
ArticlesOrder_Swapped(order) ==
    CASE order = Str("createdAt") -> Str("sys.createdAt")
      [] order = Str("countViews") -> Str("-fields.countViews")
      [] order = Str("-countViews") -> Str("fields.countViews")
      [] OTHER -> Str("-sys.createdAt")

\* switch (filter.order) of articles()
ArticlesOrder(order) ==
    CASE order = Str("createdAt") -> Str("sys.createdAt")
      [] order = Str("countViews") -> Str("fields.countViews")
      [] order = Str("-countViews") -> Str("-fields.countViews")
      [] OTHER -> Str("-sys.createdAt")

\* The query of articles().
ArticlesQuery(filter) ==
    LET q0 == [limit |-> Get(filter, "limit"),
               select |-> ListSelect,
               order |-> ArticlesOrder(Get(filter, "order"))]
        q1 == IF Truthy(Get(filter, "categoryId"))
              THEN Put(q0, "fields.category.sys.id", Get(filter, "categoryId")) ELSE q0
    IN  IF Truthy(Get(filter, "categorySlug"))
        THEN Put(q1, "fields.category.fields.slug", Get(filter, "categorySlug")) ELSE q1

\* articles() checking the filter only after a query has been sent.
articles_LateCheck(filter, resp) ==
    IF ~Truthy(filter)
    THEN [fetches |-> getArticles([limit |-> Num(1)], resp).fetches,
          promise |-> Rejected(InvalidFilter)]
    ELSE getArticles(ArticlesQuery(filter), resp)

articles(filter, resp) ==
    IF ~Truthy(filter) THEN NoFetch(Rejected(InvalidFilter))
    ELSE getArticles(ArticlesQuery(filter), resp)

articlesList(filter, resp) ==
    LET found == articles(filter, resp)
    IN  ThenCall(found, found.promise.value.items)

category(filter, resp) ==
    IF ItemFilterInvalid(filter) THEN NoFetch(Rejected(InvalidFilter))
    ELSE LET found == getCategories(ItemQuery(filter), resp)
         IN  ThenCall(found, FirstOrNull(found.promise.value))

\* item => item.parent && item.parent.name; reading item.parent of null throws.
HasNamedParent(item) ==
    Truthy(Get(item, "parent")) /\ Truthy(Get(Get(item, "parent"), "name"))

\* MainOf cutting the list to limit before filtering it.
MainOf_SliceFirst(list, limit) ==
    IF \E i \in 1..Len(list.arr) : Nullish(list.arr[i]) THEN Throw(TypeError)
    ELSE LET n == IF limit.num < Len(list.arr) THEN limit.num ELSE Len(list.arr)
         IN  Arr(SelectSeq(SubSeq(list.arr, 1, n), HasNamedParent))

\* list => list.filter(HasNamedParent).slice(0, limit)
MainOf(list, limit) ==
    IF \E i \in 1..Len(list.arr) : Nullish(list.arr[i]) THEN Throw(TypeError)
    ELSE LET kept == SelectSeq(list.arr, HasNamedParent)
         IN  Arr(SubSeq(kept, 1, IF limit.num < Len(kept) THEN limit.num ELSE Len(kept)))

mainCategories(limit, resp) ==
    LET found == getCategoriesList([order |-> Str("fields.slug"),
                                    limit |-> Num(limit.num + 10)], resp)
    IN  ThenCall(found, MainOf(found.promise.value, limit))

rootCategories(resp) ==
    getCategoriesList([order |-> Str("fields.slug"),
                       limit |-> Num(10)] @@ ("fields.parent" :> Null), resp)

allCategories(resp) ==
    getCategories([order |-> Str("fields.slug"), limit |-> Num(100)], resp)

----------------------------------------------------------------------------
(* Inputs: callers' arguments and the collaborator's answers *)

\* The objects with key k omitted or set to one of vals.
Opt(k, vals) == {EmptyObject} \cup {(k :> v) : v \in vals}

\* The objects made of one part from A and one from B.
Combine(A, B) == {a @@ b : a \in A, b \in B}

SeqsUpTo(S, n) == UNION {[1..k -> S] : k \in 0..n}

ItemFilters ==
    {Undefined, Null}
        \cup Combine(Opt("id", {Str(""), Str("a1")}), Opt("slug", {Str(""), Str("s1")}))

Orders ==
    {Str("createdAt"), Str("-createdAt"), Str("countViews"), Str("-countViews"),
     Str("title")}

ListFilters ==
    {Undefined, Null}
        \cup Combine({[limit |-> Num(n)] : n \in 1..MaxLimit},
                     Combine(Opt("order", Orders),
                             Combine(Opt("categoryId", {Str("c1")}),
                                     Opt("categorySlug", {Str("news")}))))

Limits == {Num(n) : n \in 0..MaxLimit}

UpstreamErrors == {[error |-> "network"], [error |-> "credentials"]}

RootRaw == [id |-> Str("c1"), fields |-> [name |-> Str("News"), slug |-> Str("news")]]

CategoryRaws ==
    {RootRaw,
     [id |-> Str("c2"),
      fields |-> [name |-> Str("Local"), slug |-> Str("local"), parent |-> RootRaw]],
     [id |-> Str("c3"),
      fields |-> [name |-> Str("Sport"), slug |-> Str("sport"),
                  parent |-> [id |-> Str("c9")]]]}

ImageRaw ==
    [id |-> Str("i1"),
     fields |-> [file |-> [url |-> Str("//img/1.png"),
                           details |-> [image |-> [width |-> Num(10),
                                                   height |-> Num(20)]]]]]

ArticleRaws ==
    {[id |-> Str("a1"), createdAt |-> Str("2018-01-01"), updatedAt |-> Str("2018-01-02"),
      fields |-> [title |-> Str("T"), slug |-> Str("s1"), summary |-> Str("S"),
                  text |-> Str("body"), countViews |-> Num(7),
                  category |-> RootRaw, image |-> ImageRaw]],
     [id |-> Str("a2"), fields |-> EmptyObject]}

\* The raw collections getCacheEntries may resolve to: nothing, a count alone, or up
\* to MaxItems items with or without the full-match count.
RawCollections(raws) ==
    {Undefined, EmptyObject, [total |-> Num(MaxItems + 1)]}
        \cup {[items |-> Arr(s)] : s \in SeqsUpTo(raws, MaxItems)}
        \cup {[items |-> Arr(s), total |-> Num(Len(s) + 1)] : s \in SeqsUpTo(raws, MaxItems)}

Responses(raws) ==
    {Rejected(e) : e \in UpstreamErrors} \cup {Resolved(c) : c \in RawCollections(raws)}

\* The collaborator hands the query to the backend, which returns no more items than
\* the query's limit.
Honours(query, resp) ==
    IF resp.state = "rejected" THEN TRUE
    ELSE IF ~Truthy(resp.value) THEN TRUE
    ELSE IF ~Truthy(Get(resp.value, "items")) THEN TRUE
    ELSE Len(resp.value.items.arr) <= query.limit.num

----------------------------------------------------------------------------
(* Actions: one call of a public operation, from the call to the settling of *)
(* the promise it returned.                                                   *)

NoResponse == [state |-> "none"]

Settle(name, a, call, resp) ==
    /\ \A i \in 1..Len(call.fetches) : Honours(call.fetches[i].query, resp)
    /\ op' = name
    /\ arg' = a
    /\ sent' = call.fetches
    /\ upstream' = IF Len(call.fetches) = 0 THEN NoResponse ELSE resp
    /\ result' = call.promise
    /\ UNCHANGED normVars

Article(filter, resp) == Settle("article", filter, article(filter, resp), resp)

Articles(filter, resp) == Settle("articles", filter, articles(filter, resp), resp)

ArticlesList(filter, resp) ==
    Settle("articlesList", filter, articlesList(filter, resp), resp)

Category(filter, resp) == Settle("category", filter, category(filter, resp), resp)

MainCategories(limit, resp) ==
    Settle("mainCategories", limit, mainCategories(limit, resp), resp)

RootCategories(resp) == Settle("rootCategories", Undefined, rootCategories(resp), resp)

AllCategories(resp) == Settle("allCategories", Undefined, allCategories(resp), resp)

\* The caller takes the settled value; nothing of the call is kept by the facade.
Consume ==
    /\ op # "none"
    /\ op' = "none"
    /\ arg' = Undefined
    /\ sent' = <<>>
    /\ upstream' = NoResponse
    /\ result' = NoResponse
    /\ UNCHANGED <<historyVars, normVars>>

\* Arguments and answers of the calls made back to back.
SeqListFilters == {Null, [limit |-> Num(1)], [limit |-> Num(2), order |-> Str("countViews")]}
SeqLimits == {Num(0), Num(1), Num(2)}

SeqResponses(raws) ==
    {Rejected(e) : e \in UpstreamErrors}
        \cup {Resolved(Undefined), Resolved([items |-> Arr(<<>>)])}
        \cup {Resolved([items |-> Arr(<<e>>), total |-> Num(1)]) : e \in raws}

\* The record of a call: what the caller and the collaborator can observe of it.
Observed(o, a, resp, call) ==
    [op |-> o, arg |-> a,
     upstream |-> IF Len(call.fetches) = 0 THEN NoResponse ELSE resp,
     result |-> call.promise]

\* The first call made on a newly constructed facade, for every call of a history.
FirstCalls ==
    {Observed("article", f, r, article(f, r)) :
         f \in ItemFilters, r \in SeqResponses(ArticleRaws)}
        \cup {Observed("articles", f, r, articles(f, r)) :
                  f \in SeqListFilters, r \in SeqResponses(ArticleRaws)}
        \cup {Observed("articlesList", f, r, articlesList(f, r)) :
                  f \in SeqListFilters, r \in SeqResponses(ArticleRaws)}
        \cup {Observed("category", f, r, category(f, r)) :
                  f \in ItemFilters, r \in SeqResponses(CategoryRaws)}
        \cup {Observed("mainCategories", n, r, mainCategories(n, r)) :
                  n \in SeqLimits, r \in SeqResponses(CategoryRaws)}
        \cup {Observed("rootCategories", Undefined, r, rootCategories(r)) :
                  r \in SeqResponses(CategoryRaws)}
        \cup {Observed("allCategories", Undefined, r, allCategories(r)) :
                  r \in SeqResponses(CategoryRaws)}

FacadeInit ==
    /\ op = "none"
    /\ arg = Undefined
    /\ sent = <<>>
    /\ upstream = NoResponse
    /\ result = NoResponse
    /\ fresh = FirstCalls

NormIdle ==
    /\ fn = "none"
    /\ raw = Undefined
    /\ out = Undefined

Init == FacadeInit /\ NormIdle

Idle == op = "none"

Next ==
    \/ Idle /\ \E f \in ItemFilters, r \in Responses(ArticleRaws) :
                   Article(f, r) /\ UNCHANGED historyVars
    \/ Idle /\ \E f \in ListFilters, r \in Responses(ArticleRaws) :
                   Articles(f, r) /\ UNCHANGED historyVars
    \/ Idle /\ \E f \in ListFilters, r \in Responses(ArticleRaws) :
                   ArticlesList(f, r) /\ UNCHANGED historyVars
    \/ Idle /\ \E f \in ItemFilters, r \in Responses(CategoryRaws) :
                   Category(f, r) /\ UNCHANGED historyVars
    \/ Idle /\ \E n \in Limits, r \in Responses(CategoryRaws) :
                   MainCategories(n, r) /\ UNCHANGED historyVars
    \/ Idle /\ \E r \in Responses(CategoryRaws) :
                   RootCategories(r) /\ UNCHANGED historyVars
    \/ Idle /\ \E r \in Responses(CategoryRaws) :
                   AllCategories(r) /\ UNCHANGED historyVars
    \/ Consume

\* Calls on one facade, each consumed before the next.
Spec == Init /\ [][Next]_vars

----------------------------------------------------------------------------
(* Call histories: calls made back to back on one facade, each made while    *)
(* the previous call and its outcome are still in place.                      *)

NextSeq ==
    \/ \E f \in ItemFilters, r \in SeqResponses(ArticleRaws) :
           Article(f, r) /\ UNCHANGED historyVars
    \/ \E f \in SeqListFilters, r \in SeqResponses(ArticleRaws) :
           Articles(f, r) /\ UNCHANGED historyVars
    \/ \E f \in SeqListFilters, r \in SeqResponses(ArticleRaws) :
           ArticlesList(f, r) /\ UNCHANGED historyVars
    \/ \E f \in ItemFilters, r \in SeqResponses(CategoryRaws) :
           Category(f, r) /\ UNCHANGED historyVars
    \/ \E n \in SeqLimits, r \in SeqResponses(CategoryRaws) :
           MainCategories(n, r) /\ UNCHANGED historyVars
    \/ \E r \in SeqResponses(CategoryRaws) : RootCategories(r) /\ UNCHANGED historyVars
    \/ \E r \in SeqResponses(CategoryRaws) : AllCategories(r) /\ UNCHANGED historyVars

SpecSeq == Init /\ [][NextSeq]_vars

----------------------------------------------------------------------------
(* Normalization functions applied to raw payloads with every subset of the  *)
(* optional fields omitted.                                                   *)

RECURSIVE RawCategoriesOf(_)
RawCategoriesOf(depth) ==
    LET parents == IF depth = 0 THEN {} ELSE RawCategoriesOf(depth - 1)
        fieldSets == Combine(Opt("name", {Str(""), Str("News")}),
                             Combine(Opt("slug", {Str("news")}), Opt("parent", parents)))
    IN  Combine({[id |-> Str("c1")]}, Opt("fields", fieldSets))

NormCategoryRaws == {Undefined, Null} \cup RawCategoriesOf(MaxDepth)

ImageFiles ==
    Combine(Opt("url", {Str("//img/1.png")}),
            Combine(Opt("contentType", {Str("image/png")}),
                    Opt("details", {EmptyObject, [size |-> Num(512)]}
                                       \cup Combine(Opt("size", {Num(512)}),
                                                    {[image |-> [width |-> Num(10),
                                                                 height |-> Num(20)]]}))))

NormImageRaws ==
    {Undefined, Null} \cup Combine({[id |-> Str("i1")]}, Opt("fields", Opt("file", ImageFiles)))

ArticleFieldSets ==
    Combine(Opt("title", {Str("T")}),
    Combine(Opt("slug", {Str("s1")}),
    Combine(Opt("summary", {Str("S")}),
    Combine(Opt("countViews", {Num(0), Num(7)}),
    Combine(Opt("text", {Str(""), Str("body")}),
    Combine(Opt("category", CategoryRaws \cup {[id |-> Str("c9")]}),
            Opt("image", {ImageRaw, [id |-> Str("i2")]})))))))

NormArticleRaws ==
    {Undefined, Null, [id |-> Str("a0")]}
        \cup Combine({[id |-> Str("a1")]},
             Combine(Opt("createdAt", {Str("2018-01-01")}),
             Combine(Opt("updatedAt", {Str("2018-01-02")}),
                     {[fields |-> f] : f \in ArticleFieldSets})))

ApplyToArticle ==
    /\ fn = "none"
    /\ raw \in NormArticleRaws
    /\ fn' = "toArticle"
    /\ out' = toArticle(raw)
    /\ UNCHANGED <<raw, facadeVars, historyVars>>

ApplyToCategory ==
    /\ fn = "none"
    /\ raw \in NormCategoryRaws
    /\ fn' = "toCategory"
    /\ out' = toCategory(raw)
    /\ UNCHANGED <<raw, facadeVars, historyVars>>

ApplyToImage ==
    /\ fn = "none"
    /\ raw \in NormImageRaws
    /\ fn' = "toImage"
    /\ out' = toImage(raw)
    /\ UNCHANGED <<raw, facadeVars, historyVars>>

InitNorm ==
    /\ FacadeInit
    /\ fn = "none"
    /\ out = Undefined
    /\ raw \in NormArticleRaws \cup NormCategoryRaws \cup NormImageRaws

NextNorm == ApplyToArticle \/ ApplyToCategory \/ ApplyToImage

SpecNorm == InitNorm /\ [][NextNorm]_vars

----------------------------------------------------------------------------
(* Properties *)

ItemOps == {"article", "category"}
ListOps == {"articles", "articlesList"}
ArticleOps == {"article", "articles", "articlesList"}

\* A filter object: neither null nor undefined.
IsObject(f) == ~Nullish(f)

\* The filter carries key k with a non-empty string.
Supplies(f, k) == IsObject(f) /\ k \in DOMAIN f /\ f[k] # Str("")

\* The raw items of a settled upstream answer (none when the answer has no items).
RawItems(resp) ==
    IF resp.state = "resolved" /\ Truthy(resp.value) /\ Truthy(Get(resp.value, "items"))
    THEN resp.value.items.arr
    ELSE <<>>

\* C1: category(filter) and article(filter) reject with the invalid-filter error when
\* the filter has neither id nor slug, and a filter that supplies only a slug is not
\* rejected as invalid: its query is sent.
C1_FilterValidation ==
    op \in ItemOps /\ IsObject(arg) =>
        /\ ("id" \notin DOMAIN arg /\ "slug" \notin DOMAIN arg
                => result = Rejected(InvalidFilter) /\ Len(sent) = 0)
        /\ (Supplies(arg, "slug") /\ "id" \notin DOMAIN arg
                => result # Rejected(InvalidFilter) /\ Len(sent) = 1)

C1_Witness ==
    /\ op = "category"
    /\ arg = [slug |-> Str("s1")]
    /\ result.state = "resolved"

\* C2: with a valid filter and an upstream answer, category() and article() resolve
\* to null when the answer has no item, and to the first normalized item otherwise.
C2_FirstOrNull ==
    op \in ItemOps /\ upstream.state = "resolved" =>
        LET items == RawItems(upstream)
        IN  IF Len(items) = 0
            THEN result = Resolved(Null)
            ELSE result = Resolved(IF op = "article" THEN toArticle(items[1])
                                                     ELSE toCategory(items[1]))

C2_Witness ==
    /\ op = "article"
    /\ upstream = Resolved([items |-> Arr(<<>>), total |-> Num(1)])
    /\ result = Resolved(Null)

\* C3: when getCacheEntries fails, every public operation rejects with that same
\* failure, after exactly one fetch.
C3_UpstreamFailurePropagates ==
    op # "none" /\ upstream.state = "rejected" =>
        /\ result = upstream
        /\ Len(sent) = 1

C3_Witness ==
    /\ op = "mainCategories"
    /\ upstream = Rejected([error |-> "credentials"])
    /\ result = Rejected([error |-> "credentials"])

\* C4: every collection returned by articles() and allCategories() has
\* items.length <= total.
C4_ItemsWithinTotal ==
    op \in {"articles", "allCategories"} /\ result.state = "resolved" =>
        Len(result.value.items.arr) <= result.value.total.num

\* A normalized category with a parent that has a non-empty name.
Qualifies(item) ==
    /\ "parent" \in DOMAIN item
    /\ IsObject(item.parent)
    /\ "name" \in DOMAIN item.parent
    /\ item.parent.name \notin {Undefined, Null, Str("")}

C6_ArticlesQuery ==
    op = "articles" /\ IsObject(arg) =>
        /\ Len(sent) = 1
        /\ LET q == sent[1].query
               order == Get(arg, "order")
           IN  /\ (order = Str("createdAt") => q.order = Str("sys.createdAt"))
               /\ (order = Str("countViews") => q.order = Str("fields.countViews"))
               /\ (order = Str("-countViews") => q.order = Str("-fields.countViews"))
               /\ (order \notin {Str("createdAt"), Str("countViews"), Str("-countViews")}
                       => q.order = Str("-sys.createdAt"))
               /\ q.select =
                      Arr(<<Str("sys.id"), Str("sys.createdAt"), Str("sys.updatedAt"),
                            Str("fields.title"), Str("fields.slug"),
                            Str("fields.summary"), Str("fields.image"),
                            Str("fields.category")>>)
               /\ \A i \in 1..Len(q.select.arr) : q.select.arr[i] # Str("fields.text")
               /\ q.limit = arg.limit

C6_Witness ==
    /\ op = "articles"
    /\ arg = [limit |-> Num(2), order |-> Str("countViews")]
    /\ sent[1].query.order = Str("fields.countViews")

RECURSIVE CategoryOmissionsKept(_, _)
\* Every field omitted from raw category r (at any depth) reads undefined on o.
CategoryOmissionsKept(r, o) ==
    LET f == Get(r, "fields")
    IN  /\ \A k \in {"name", "slug", "parent"} :
               (f = Undefined \/ k \notin DOMAIN f) => Get(o, k) = Undefined
        /\ (f # Undefined /\ "parent" \in DOMAIN f)
               => CategoryOmissionsKept(f.parent, Get(o, "parent"))

\* C7: for a raw article or category with any subset of the optional fields omitted,
\* toArticle and toCategory do not throw and every omitted field reads undefined on
\* the output (neither null nor ''), except countViews, which is 1 when the raw
\* countViews is absent or falsy.
C7_OmittedStayAbsent ==
    /\ (fn = "toArticle" /\ IsObject(raw) /\ "fields" \in DOMAIN raw) =>
           /\ ~IsThrow(out)
           /\ \A k \in {"createdAt", "updatedAt"} :
                  k \notin DOMAIN raw => Get(out, k) = Undefined
           /\ \A k \in {"title", "slug", "summary", "text", "category", "image"} :
                  k \notin DOMAIN raw.fields => Get(out, k) = Undefined
           /\ \A k \in {"text", "category", "image"} :
                  k \notin DOMAIN raw.fields => k \notin DOMAIN out
           /\ ~Truthy(Get(raw.fields, "countViews")) => Get(out, "countViews") = Num(1)
           /\ "category" \in DOMAIN raw.fields
                  => CategoryOmissionsKept(raw.fields.category, Get(out, "category"))
    /\ (fn = "toCategory" /\ IsObject(raw)) =>
           /\ ~IsThrow(out)
           /\ CategoryOmissionsKept(raw, out)

C7_Witness ==
    /\ fn = "toArticle"
    /\ raw = [id |-> Str("a1"), fields |-> [countViews |-> Num(0)]]
    /\ Get(out, "countViews") = Num(1)
    /\ Get(out, "title") = Undefined

\* C8: articles() and articlesList() reject with the invalid-filter error when the
\* filter is null or undefined, without sending a query, and each of them rejects
\* exactly when the filter is absent or the fetch fails.
C8_AbsentListFilter ==
    op \in ListOps =>
        /\ Nullish(arg) => result = Rejected(InvalidFilter) /\ Len(sent) = 0
        /\ (result.state = "rejected") = (Nullish(arg) \/ upstream.state = "rejected")

C8_Witness ==
    /\ op = "articlesList"
    /\ arg = Undefined
    /\ result = Rejected(InvalidFilter)
    /\ Len(sent) = 0

\* C9: with a valid filter, category() and article() send a query with limit 1 and
\* include 1 that carries the slug key alone when a slug is supplied (even next to an
\* id) and the identifier key alone otherwise.
C9_ItemQuery ==
    op \in ItemOps /\ (Supplies(arg, "id") \/ Supplies(arg, "slug")) =>
        /\ Len(sent) = 1
        /\ LET q == sent[1].query
           IN  /\ q.limit = Num(1)
               /\ q.include = Num(1)
               /\ IF Supplies(arg, "slug")
                  THEN /\ "fields.slug" \in DOMAIN q
                       /\ q["fields.slug"] = arg.slug
                       /\ "sys.id" \notin DOMAIN q
                  ELSE /\ "sys.id" \in DOMAIN q
                       /\ q["sys.id"] = arg.id
                       /\ "fields.slug" \notin DOMAIN q

C9_Witness ==
    /\ op = "article"
    /\ arg = [id |-> Str("a1"), slug |-> Str("s1")]
    /\ "fields.slug" \in DOMAIN sent[1].query
    /\ "sys.id" \notin DOMAIN sent[1].query

\* The calls that pass validation.
PassesValidation(o, a) ==
    CASE o \in ItemOps -> Supplies(a, "id") \/ Supplies(a, "slug")
      [] o \in ListOps -> IsObject(a)
      [] OTHER -> TRUE

====
